---- MODULE Spec2Model ----
(***************************************************************************)
(* A model of lorikeet's step executor (src/src/step.rs): the four run    *)
(* actions, the four expectations, execute()'s two-stage pipeline and the *)
(* process-wide cookie jar COOKIES shared by concurrently running Http    *)
(* steps.                                                                  *)
(*                                                                         *)
(* Text is a sequence of one-character strings, so that splitting,        *)
(* number parsing and pattern matching are computed character by          *)
(* character.  A failure message is a record naming the format string     *)
(* (kind) and the values interpolated into it.  Outcome.duration is a     *)
(* wall-clock reading that no operation reads back; it is left out.       *)
(***************************************************************************)
EXTENDS Integers, Sequences, FiniteSets, TLC

\* ------------------------------------------------------------ bounds

\* Threads that may be inside execute() at the same time.
NThreads == 2

\* Longest raw text handed to the expectation evaluator in SpecCheck.
MaxLen == 3

\* Most Set-Cookie lines in one response in SpecSeq.
MaxCookies == 2

\* Largest reading a metric probe returns.
MaxMetric == 2

\* ------------------------------------------------------------ text

Digits == <<"0", "1", "2", "3", "4", "5", "6", "7", "8", "9">>

\* A byte that is not valid UTF-8, and what lossy decoding puts in its place.
InvalidByte == "\\xFF"

ReplacementChar == "\\uFFFD"

EmptyText == <<>>

RECURSIVE Pow10(_)
Pow10(n) == IF n = 0 THEN 1 ELSE 10 * Pow10(n - 1)

\* Numbers are fixed-point: the integer v stands for v / Scale.
Scale == Pow10(MaxLen)

IsDigit(c) == \E i \in 1..10 : Digits[i] = c

DigitVal(c) == (CHOOSE i \in 1..10 : Digits[i] = c) - 1

AllDigits(s) == \A i \in 1..Len(s) : IsDigit(s[i])

RECURSIVE NatOf(_)
NatOf(s) == IF s = <<>> THEN 0 ELSE 10 * NatOf(SubSeq(s, 1, Len(s) - 1)) + DigitVal(s[Len(s)])

\* str::find: the first position of c in s, 0 when there is none.
IndexOf(s, c) ==
    IF \E i \in 1..Len(s) : s[i] = c
    THEN CHOOSE i \in 1..Len(s) : s[i] = c /\ \A j \in 1..(i - 1) : s[j] # c
    ELSE 0

\* str::split(sep): every piece between separators; never empty.
RECURSIVE Split(_, _)
Split(s, sep) ==
    LET i == IndexOf(s, sep)
    IN  IF i = 0 THEN <<s>>
        ELSE <<SubSeq(s, 1, i - 1)>> \o Split(SubSeq(s, i + 1, Len(s)), sep)

\* str::splitn(2, sep): cut at the first separator only.
SplitN2(s, sep) ==
    LET i == IndexOf(s, sep)
    IN  IF i = 0 THEN <<s>>
        ELSE <<SubSeq(s, 1, i - 1), SubSeq(s, i + 1, Len(s))>>

\* String::from_utf8_lossy: invalid bytes become U+FFFD.
FromUtf8Lossy(bytes) ==
    [i \in 1..Len(bytes) |-> IF bytes[i] = InvalidByte THEN ReplacementChar ELSE bytes[i]]

\* u64::to_string.
RECURSIVE ToDecimal(_)
ToDecimal(n) ==
    IF n < 10 THEN <<Digits[n + 1]>> ELSE ToDecimal(n \div 10) \o <<Digits[(n % 10) + 1]>>

\* f64::to_string of a reading given in tenths: "1" for 1.0, "0.5" for 0.5.
F64ToString(tenths) ==
    IF tenths % 10 = 0 THEN ToDecimal(tenths \div 10)
    ELSE ToDecimal(tenths \div 10) \o <<".">> \o <<Digits[(tenths % 10) + 1]>>

\* str::parse::<f64> on plain decimals: an optional sign, digits with at most
\* one point, at least one digit.  (Exponents, inf and nan use letters that
\* are outside the alphabets below.)
ParseF64(s) ==
    LET signed == Len(s) > 0 /\ s[1] \in {"-", "+"}
        neg == Len(s) > 0 /\ s[1] = "-"
        body == IF signed THEN Tail(s) ELSE s
        dot == IndexOf(body, ".")
        ip == IF dot = 0 THEN body ELSE SubSeq(body, 1, dot - 1)
        fp == IF dot = 0 THEN <<>> ELSE SubSeq(body, dot + 1, Len(body))
        valid == AllDigits(ip) /\ AllDigits(fp) /\ Len(ip) + Len(fp) > 0
                 /\ Len(fp) <= MaxLen
        mag == NatOf(ip) * Scale + NatOf(fp) * Pow10(MaxLen - Len(fp))
    IN  IF valid THEN [ok |-> TRUE, val |-> IF neg THEN 0 - mag ELSE mag]
        ELSE [ok |-> FALSE, val |-> 0]

\* ------------------------------------------------------------ results

Msg(kind, nums, txts, strs) == [kind |-> kind, nums |-> nums, txts |-> txts, strs |-> strs]

NoMsg == Msg("", <<>>, <<>>, <<>>)

\* Result<String, String>
Ok(text) == [ok |-> TRUE, val |-> text, err |-> NoMsg]

Err(msg) == [ok |-> FALSE, val |-> EmptyText, err |-> msg]

\* ------------------------------------------------------------ expectations

Anything == [tag |-> "anything", pat |-> EmptyText, num |-> 0]

Matches(p) == [tag |-> "matches", pat |-> p, num |-> 0]

GreaterThan(n) == [tag |-> "greaterthan", pat |-> EmptyText, num |-> n]

LessThan(n) == [tag |-> "lessthan", pat |-> EmptyText, num |-> n]

\* Regex::new on the patterns used here: an optional leading ^, literal
\* characters and "." (any character), an optional trailing $.  An opening
\* parenthesis is never closed in them, which is a syntax error.
RegexNew(p) == \A i \in 1..Len(p) : p[i] # "("

\* Regex::is_match: the pattern matches somewhere in val.
IsMatch(p, val) ==
    LET anchoredL == Len(p) > 0 /\ p[1] = "^"
        p1 == IF anchoredL THEN Tail(p) ELSE p
        anchoredR == Len(p1) > 0 /\ p1[Len(p1)] = "$"
        atoms == IF anchoredR THEN SubSeq(p1, 1, Len(p1) - 1) ELSE p1
        n == Len(atoms)
        At(k) == /\ k + n <= Len(val)
                 /\ \A j \in 1..n : atoms[j] = "." \/ atoms[j] = val[k + j]
                 /\ anchoredL => k = 0
                 /\ anchoredR => k + n = Len(val)
    IN  \E k \in 0..Len(val) : At(k)

GreaterOrEqualHolds(compare, num) == compare >= num

GreaterThanHolds(compare, num) == compare > num

LessThanHolds(compare, num) == compare < num

\* ExpectType::check
Check(expect, val) ==
    CASE expect.tag = "anything" -> Ok(val)
      [] expect.tag = "matches" ->
            IF ~RegexNew(expect.pat)
            THEN Err(Msg("Could not create regex from {}.  Error is:{}", <<>>, <<expect.pat>>, <<>>))
            ELSE IF IsMatch(expect.pat, val)
                 THEN Ok(EmptyText)
                 ELSE Err(Msg("Not matched against {}", <<>>, <<expect.pat>>, <<>>))
      [] expect.tag = "greaterthan" ->
            LET parsed == ParseF64(val)
            IN  IF parsed.ok
                THEN IF GreaterThanHolds(parsed.val, expect.num)
                     THEN Ok(val)
                     ELSE Err(Msg("the value {} is less than {}", <<parsed.val, expect.num>>, <<>>, <<>>))
                ELSE Err(Msg("Could not parse {} as a number", <<expect.num>>, <<>>, <<>>))
      [] expect.tag = "lessthan" ->
            LET parsed == ParseF64(val)
            IN  IF parsed.ok
                THEN IF LessThanHolds(parsed.val, expect.num)
                     THEN Ok(val)
                     ELSE Err(Msg("the value {} is greater than {}", <<parsed.val, expect.num>>, <<>>, <<>>))
                ELSE Err(Msg("Could not parse {} as a number", <<expect.num>>, <<>>, <<>>))

\* ------------------------------------------------------------ run actions

default_cookies == FALSE

default_output == TRUE

default_status == 200

\* Option<T>: the empty set is None, {x} is Some(x).
None == {}

Some(x) == {x}

Unwrap(opt) == CHOOSE x \in opt : TRUE

BashCmdOnly(cmd) == [variant |-> "CmdOnly", cmd |-> cmd, get_output |-> FALSE]

BashWithOptions(cmd, get_output) == [variant |-> "Options", cmd |-> cmd, get_output |-> get_output]

HttpOptions(url, method, get_output, save_cookies, status, user, pass, form) ==
    [url |-> url, method |-> method, get_output |-> get_output,
     save_cookies |-> save_cookies, status |-> status,
     user |-> user, pass |-> pass, form |-> form]

NoHttpOptions == HttpOptions("", "", FALSE, FALSE, 0, None, None, None)

HttpUrlOnly(url) == [variant |-> "UrlOnly", url |-> url, opts |-> NoHttpOptions]

HttpWithOptions(opts) == [variant |-> "Options", url |-> opts.url, opts |-> opts]

NoBash == BashCmdOnly("")

NoHttp == HttpUrlOnly("")

\* RunType
Value(val) == [tag |-> "value", val |-> val, bash |-> NoBash, http |-> NoHttp, system |-> ""]

Bash(variant) == [tag |-> "bash", val |-> EmptyText, bash |-> variant, http |-> NoHttp, system |-> ""]

Http(variant) == [tag |-> "http", val |-> EmptyText, bash |-> NoBash, http |-> variant, system |-> ""]

System(variant) == [tag |-> "system", val |-> EmptyText, bash |-> NoBash, http |-> NoHttp, system |-> variant]

NoRun == [tag |-> "", val |-> EmptyText, bash |-> NoBash, http |-> NoHttp, system |-> ""]

SystemVariant ==
    {"MemTotal", "MemFree", "MemAvailable", "LoadAvg1m", "LoadAvg5m", "LoadAvg15m",
     "DiskTotal", "DiskFree"}

\* The bash arm's resolution of a BashVariant into BashOptions.
BashOpts(val) ==
    IF val.variant = "CmdOnly"
    THEN [cmd |-> val.cmd, get_output |-> default_output]
    ELSE [cmd |-> val.cmd, get_output |-> val.get_output]

\* The bash arm: what run() makes of the shell's completion.  proc is the
\* result of Command::output(): spawned or not, success, exit code, streams.
RunBash(val, proc) ==
    LET bashopts == BashOpts(val)
    IN  IF ~proc.spawned
        THEN Err(Msg("Err:{}", <<>>, <<>>, <<"os error">>))
        ELSE IF proc.success
             THEN IF bashopts.get_output
                  THEN Ok(FromUtf8Lossy(proc.stdout))
                  ELSE Ok(EmptyText)
             ELSE Err(Msg("Exit Code:{}, StdErr:{}, StdOut:{}",
                          <<IF proc.code = None THEN 1 ELSE Unwrap(proc.code)>>,
                          <<FromUtf8Lossy(proc.stderr), FromUtf8Lossy(proc.stdout)>>, <<>>))

\* The system arm.  probe is the result of loadavg(), mem_info() or
\* disk_info(): ok or not, and the reading of the requested field.
RunSystem(variant, probe) ==
    CASE variant \in {"LoadAvg1m", "LoadAvg5m", "LoadAvg15m"} ->
            IF probe.ok THEN Ok(F64ToString(probe.reading * 5))
            ELSE Err(Msg("Could not get load", <<>>, <<>>, <<>>))
      [] variant \in {"MemAvailable", "MemFree", "MemTotal"} ->
            IF probe.ok THEN Ok(ToDecimal(probe.reading))
            ELSE Err(Msg("Could not get memory", <<>>, <<>>, <<>>))
      [] variant \in {"DiskTotal", "DiskFree"} ->
            IF probe.ok THEN Ok(ToDecimal(probe.reading))
            ELSE Err(Msg("Could not get disk", <<>>, <<>>, <<>>))

\* ------------------------------------------------------------ the http arm

\* The http arm's resolution of an HttpVariant into HttpOptions.
HttpOpts(val) ==
    IF val.variant = "UrlOnly"
    THEN HttpOptions(val.url, "GET", default_output, default_cookies, default_status,
                     None, None, None)
    ELSE val.opts

\* reqwest::Url::from_str on the URLs used here: a relative reference has no
\* base to resolve against and does not parse.
UrlFromStr(url) == url \in {"http://h1/", "http://h2/", "http://h3/", "http://h4/", "data:text"}

\* Url::host_str: a data: URL has no host.
HostStr(url) ==
    CASE url = "http://h1/" -> Some("h1")
      [] url = "http://h2/" -> Some("h2")
      [] url = "http://h3/" -> Some("h3")
      [] url = "http://h4/" -> Some("h4")
      [] OTHER -> None

HostNames == {"h1", "h2", "h3", "h4"}

EffectiveMethodFormPosts(method, form) ==
    IF form # None THEN "POST" ELSE method

\* The method the request is built with.
EffectiveMethod(method, form) ==
    IF form # None /\ method = "GET" THEN "POST" ELSE method

\* request.basic_auth(user, pass) when a user is configured.
BasicAuth(user, pass) ==
    IF user # None THEN Some([user |-> Unwrap(user), pass |-> pass]) ELSE None

\* hyper's Cookie header: a map from name to value.
CookieNew == [k \in {} |-> EmptyText]

\* Cookie::set: the pair replaces any pair of the same name.
CookieSet(cookies, key, value) ==
    [k \in (DOMAIN cookies) \cup {key} |-> IF k = key THEN value ELSE cookies[k]]

JarGetNothing(jar, hostname) == None

JarGetAnyHost(jar, hostname) ==
    IF DOMAIN jar # {} THEN Some(jar[CHOOSE h \in DOMAIN jar : TRUE]) ELSE None

\* COOKIES.get(&hostname): only the entry keyed by the hostname.
JarGet(jar, hostname) ==
    IF hostname \in DOMAIN jar THEN Some(jar[hostname]) ELSE None

JarInsertAlone(jar, hostname, new_cookies) == [h \in {hostname} |-> new_cookies]

JarInsertMerged(jar, hostname, new_cookies) ==
    [h \in (DOMAIN jar) \cup {hostname} |->
        IF h # hostname THEN jar[h]
        ELSE IF hostname \in DOMAIN jar
             THEN [k \in (DOMAIN jar[h]) \cup (DOMAIN new_cookies) |->
                      IF k \in DOMAIN new_cookies THEN new_cookies[k] ELSE jar[h][k]]
             ELSE new_cookies]

\* COOKIES.insert(hostname, new_cookies): the entry is replaced whole.
JarInsert(jar, hostname, new_cookies) ==
    [h \in (DOMAIN jar) \cup {hostname} |-> IF h = hostname THEN new_cookies ELSE jar[h]]

RedirectPolicyLimited == "limited"

\* The policy the client is built with.
RedirectPolicy == "none"

\* The loop over the Set-Cookie lines.  Indexing key_value[1] (the second
\* element) aborts when the first part of a line holds no "=".
RECURSIVE CollectCookies(_, _)
CollectCookies(lines, new_cookies) ==
    IF lines = <<>> THEN [panic |-> FALSE, cookies |-> new_cookies]
    ELSE LET cookie_parts == Split(Head(lines), ";")
             key_value == SplitN2(cookie_parts[1], "=")
         IN  IF Len(key_value) < 2
             THEN [panic |-> TRUE, cookies |-> new_cookies]
             ELSE CollectCookies(Tail(lines), CookieSet(new_cookies, key_value[1], key_value[2]))

\* The http arm up to the request being handed to the network: the failure it
\* returns early with, or the hostname and the request.  env says whether the
\* client and the request could be built.
HttpBegin(httpops, env, jar) ==
    IF ~env.client_ok
    THEN [ok |-> FALSE, err |-> Msg("client build error", <<>>, <<>>, <<>>),
          hostname |-> "", request |-> None]
    ELSE IF ~UrlFromStr(httpops.url)
    THEN [ok |-> FALSE, err |-> Msg("Failed to parse url {}: {}", <<>>, <<>>, <<httpops.url>>),
          hostname |-> "", request |-> None]
    ELSE IF HostStr(httpops.url) = None
    THEN [ok |-> FALSE, err |-> Msg("No host could be found for url: {}", <<>>, <<>>, <<httpops.url>>),
          hostname |-> "", request |-> None]
    ELSE LET hostname == Unwrap(HostStr(httpops.url))
             request == [method |-> EffectiveMethod(httpops.method, httpops.form),
                         url |-> httpops.url,
                         auth |-> BasicAuth(httpops.user, httpops.pass),
                         form |-> httpops.form,
                         cookie |-> JarGet(jar, hostname)]
         IN  IF ~env.request_ok
             THEN [ok |-> FALSE, err |-> Msg("request build error", <<>>, <<>>, <<>>),
                   hostname |-> hostname, request |-> None]
             ELSE [ok |-> TRUE, err |-> NoMsg, hostname |-> hostname, request |-> Some(request)]

IsRedirect(status) == status \in 300..399

\* client.execute: with a policy that follows redirects the client would
\* answer a 3xx by a second request and hand back that one's response.
ClientExecute(net) ==
    IF RedirectPolicy # "none" /\ net.transport_ok /\ IsRedirect(net.status)
    THEN [requests |-> 2, net |-> [net EXCEPT !.status = 200]]
    ELSE [requests |-> 1, net |-> net]

\* read_to_string: fails on a body that is not valid UTF-8.
ReadToString(body) ==
    IF \E i \in 1..Len(body) : body[i] = InvalidByte
    THEN Err(Msg("body read error", <<>>, <<>>, <<>>))
    ELSE Ok(body)

\* The cookie-persist stage: with save_cookies and a Set-Cookie header, the
\* parsed lines replace the hostname's entry; a line without "=" aborts
\* before the jar is touched.
Persist(httpops, hostname, response, jar) ==
    IF httpops.save_cookies /\ response.set_cookie # None
    THEN LET parsed == CollectCookies(Unwrap(response.set_cookie), CookieNew)
         IN  IF parsed.panic THEN [panic |-> TRUE, jar |-> jar]
             ELSE [panic |-> FALSE, jar |-> JarInsert(jar, hostname, parsed.cookies)]
    ELSE [panic |-> FALSE, jar |-> jar]

HttpFinishPersistFirst(httpops, hostname, net, jar) ==
    LET got == ClientExecute(net)
        response == got.net
        base == [kind |-> "return", result |-> Ok(EmptyText), jar |-> jar,
                 requests |-> got.requests, body_read |-> FALSE, persist_reached |-> FALSE]
    IN  IF ~response.transport_ok
        THEN [base EXCEPT !.result = Err(Msg("Error connecting to url {}", <<>>, <<>>, <<httpops.url>>))]
        ELSE IF response.status # httpops.status
        THEN [base EXCEPT !.result = Err(Msg("returned status {} does not match expected {}",
                                             <<response.status, httpops.status>>, <<>>, <<>>))]
        ELSE LET persisted == Persist(httpops, hostname, response, jar)
                 atPersist == [base EXCEPT !.persist_reached = TRUE, !.jar = persisted.jar]
                 read == IF httpops.get_output THEN ReadToString(response.body) ELSE Ok(EmptyText)
             IN  IF persisted.panic THEN [atPersist EXCEPT !.kind = "panic"]
                 ELSE [atPersist EXCEPT !.result = read, !.body_read = httpops.get_output]

\* The http arm from the network's answer on.  kind is "return" with the
\* Result run() returns, or "panic"; jar is COOKIES afterwards.
HttpFinish(httpops, hostname, net, jar) ==
    LET got == ClientExecute(net)
        response == got.net
        base == [kind |-> "return", result |-> Ok(EmptyText), jar |-> jar,
                 requests |-> got.requests, body_read |-> FALSE, persist_reached |-> FALSE]
    IN  IF ~response.transport_ok
        THEN [base EXCEPT !.result = Err(Msg("Error connecting to url {}", <<>>, <<>>, <<httpops.url>>))]
        ELSE IF response.status # httpops.status
        THEN [base EXCEPT !.result = Err(Msg("returned status {} does not match expected {}",
                                             <<response.status, httpops.status>>, <<>>, <<>>))]
        ELSE LET read == IF httpops.get_output THEN ReadToString(response.body) ELSE Ok(EmptyText)
                 afterRead == [base EXCEPT !.body_read = httpops.get_output]
             IN  IF ~read.ok THEN [afterRead EXCEPT !.result = read]
                 ELSE LET persisted == Persist(httpops, hostname, response, jar)
                          atPersist == [afterRead EXCEPT !.persist_reached = TRUE,
                                                         !.jar = persisted.jar]
                      IN  IF persisted.panic THEN [atPersist EXCEPT !.kind = "panic"]
                          ELSE [atPersist EXCEPT !.result = Ok(read.val)]

ExecuteAlwaysChecks(ran, expect) == [result |-> Check(expect, ran.val), checked |-> TRUE]

\* execute(): run().and_then(|val| expect.check(&val)).  checked records
\* whether the closure, and so the evaluator, ran.
Execute(ran, expect) ==
    IF ran.ok THEN [result |-> Check(expect, ran.val), checked |-> TRUE]
    ELSE [result |-> ran, checked |-> FALSE]

\* ------------------------------------------------------------ state

VARIABLES
    COOKIES,      \* the jar: hostname -> Cookie, for the hostnames that have an entry
    pc,           \* per thread: "idle", "awaiting" (request on the wire), "returned", "panicked"
    call,         \* per thread: the step being executed (run action and expectation)
    local,        \* per thread: run()'s httpops and hostname
    request,      \* per thread: the request handed to the network
    response,     \* per thread: the network's answer as the step received it
    outcome,      \* per thread: the Outcome execute() returned
    obs,          \* per thread, history: run()'s result, the stages it went through, and
                  \* which threads were finished when it sent its request and when it ended
    initialJar    \* history: the jar when the threads started

vars == <<COOKIES, pc, call, local, request, response, outcome, obs, initialJar>>

Threads == 1..NThreads

NoCall == [run |-> NoRun, expect |-> Anything]

NoLocal == [httpops |-> NoHttpOptions, hostname |-> ""]

NoObs == [run |-> None, checked |-> FALSE, requests |-> 0,
          body_read |-> FALSE, persist_reached |-> FALSE,
          began_after |-> {}, ended_after |-> {}]

\* The threads whose execute() is over.
Finished == {u \in Threads : pc[u] \in {"returned", "panicked"}}

\* Set-Cookie lines.
LineA1 == <<"a", "=", "1">>

LineB2Path == <<"b", "=", "2", ";", "p", "=", "x">>

LineNoEquals == <<"a">>

CookieA1 == CookieSet(CookieNew, <<"a">>, <<"1">>)

CookieB2 == CookieSet(CookieNew, <<"b">>, <<"2">>)

EmptyJar == [h \in {} |-> CookieNew]

\* Jars that earlier steps of the process may have left behind.
InitialJars == {EmptyJar, JarInsert(EmptyJar, "h1", CookieB2)}

Init ==
    /\ COOKIES \in InitialJars
    /\ initialJar = COOKIES
    /\ pc = [t \in Threads |-> "idle"]
    /\ call = [t \in Threads |-> NoCall]
    /\ local = [t \in Threads |-> NoLocal]
    /\ request = [t \in Threads |-> None]
    /\ response = [t \in Threads |-> None]
    /\ outcome = [t \in Threads |-> None]
    /\ obs = [t \in Threads |-> NoObs]

\* execute() returns: the Outcome is built from run()'s result and the check.
Returns(t, ran, expect, seen) ==
    LET done == Execute(ran, expect)
    IN  /\ pc' = [pc EXCEPT ![t] = "returned"]
        /\ outcome' = [outcome EXCEPT ![t] = Some([result |-> done.result])]
        /\ obs' = [obs EXCEPT ![t] = [seen EXCEPT !.run = Some(ran), !.checked = done.checked]]

\* execute() of a Value step.
ExecuteValue(t, val, expect) ==
    /\ pc[t] = "idle"
    /\ call' = [call EXCEPT ![t] = [run |-> Value(val), expect |-> expect]]
    /\ Returns(t, Ok(val), expect, NoObs)
    /\ UNCHANGED <<COOKIES, local, request, response, initialJar>>

\* execute() of a Bash step; the shell runs to completion inside the call.
ExecuteBash(t, variant, expect, proc) ==
    /\ pc[t] = "idle"
    /\ call' = [call EXCEPT ![t] = [run |-> Bash(variant), expect |-> expect]]
    /\ Returns(t, RunBash(variant, proc), expect, NoObs)
    /\ UNCHANGED <<COOKIES, local, request, response, initialJar>>

\* execute() of a System step.
ExecuteSystem(t, variant, expect, probe) ==
    /\ pc[t] = "idle"
    /\ call' = [call EXCEPT ![t] = [run |-> System(variant), expect |-> expect]]
    /\ Returns(t, RunSystem(variant, probe), expect, NoObs)
    /\ UNCHANGED <<COOKIES, local, request, response, initialJar>>

\* execute() of an Http step, up to the request being on the wire; an early
\* failure returns at once.
HttpSend(t, variant, expect, env) ==
    /\ pc[t] = "idle"
    /\ call' = [call EXCEPT ![t] = [run |-> Http(variant), expect |-> expect]]
    /\ LET httpops == HttpOpts(variant)
           begun == HttpBegin(httpops, env, COOKIES)
       IN  /\ local' = [local EXCEPT ![t] = [httpops |-> httpops, hostname |-> begun.hostname]]
           /\ request' = [request EXCEPT ![t] = begun.request]
           /\ IF begun.ok
              THEN /\ pc' = [pc EXCEPT ![t] = "awaiting"]
                   /\ obs' = [obs EXCEPT ![t] = [NoObs EXCEPT !.began_after = Finished]]
                   /\ UNCHANGED outcome
              ELSE Returns(t, Err(begun.err), expect, [NoObs EXCEPT !.began_after = Finished])
    /\ UNCHANGED <<COOKIES, response, initialJar>>

\* The rest of execute() of an Http step, from the network's answer on.
HttpReceive(t, net) ==
    /\ pc[t] = "awaiting"
    /\ LET httpops == local[t].httpops
           hostname == local[t].hostname
           fin == HttpFinish(httpops, hostname, net, COOKIES)
           got == ClientExecute(net).net
           seen == [obs[t] EXCEPT !.requests = fin.requests, !.body_read = fin.body_read,
                                  !.persist_reached = fin.persist_reached,
                                  !.ended_after = Finished]
       IN  /\ COOKIES' = fin.jar
           /\ request' = [request EXCEPT ![t] = None]
           /\ response' = [response EXCEPT ![t] = IF got.transport_ok THEN Some(got) ELSE None]
           /\ IF fin.kind = "panic"
              THEN /\ pc' = [pc EXCEPT ![t] = "panicked"]
                   /\ obs' = [obs EXCEPT ![t] = seen]
                   /\ UNCHANGED outcome
              ELSE Returns(t, fin.result, call[t].expect, seen)
    /\ UNCHANGED <<call, local, initialJar>>

\* The caller takes the Outcome; the thread is free for its next step.
Return(t) ==
    /\ pc[t] = "returned"
    /\ pc' = [pc EXCEPT ![t] = "idle"]
    /\ call' = [call EXCEPT ![t] = NoCall]
    /\ local' = [local EXCEPT ![t] = NoLocal]
    /\ response' = [response EXCEPT ![t] = None]
    /\ outcome' = [outcome EXCEPT ![t] = None]
    /\ obs' = [obs EXCEPT ![t] = NoObs]
    /\ UNCHANGED <<COOKIES, request, initialJar>>

\* ------------------------------------------------------------ inputs

Envs == [client_ok : BOOLEAN, request_ok : BOOLEAN]

Net(transport_ok, status, set_cookie, body) ==
    [transport_ok |-> transport_ok, status |-> status, set_cookie |-> set_cookie, body |-> body]

TransportError == Net(FALSE, 0, None, EmptyText)

Bodies == {<<"6">>, <<InvalidByte>>}

\* One batch of concurrent Http steps: one execution per thread, each to one
\* of as many hosts as there are threads, each persisting cookies.
UrlTable == <<"http://h1/", "http://h2/", "http://h3/", "http://h4/">>

ConcUrls == {UrlTable[i] : i \in 1..NThreads}

ConcHttp ==
    {HttpWithOptions(HttpOptions(u, "GET", TRUE, TRUE, default_status, None, None, None)) :
        u \in ConcUrls}

ConcNets ==
    {TransportError, Net(TRUE, 302, None, <<"6">>), Net(TRUE, 200, Some(<<LineA1>>), <<InvalidByte>>)}
    \cup {Net(TRUE, 200, c, <<"6">>) :
            c \in {None, Some(<<LineA1>>), Some(<<LineB2Path>>), Some(<<LineNoEquals>>)}}

ConcSend(t) == \E v \in ConcHttp, env \in Envs : HttpSend(t, v, Anything, env)

ConcReceive(t) == \E net \in ConcNets : HttpReceive(t, net)

Next == \E t \in Threads : ConcSend(t) \/ ConcReceive(t)

Spec == Init /\ [][Next]_vars

\* One thread executing step after step, over every kind of step.
SeqTexts == {<<"6">>, <<"a">>}

SeqExpects == {Anything, Matches(<<"a">>), Matches(<<"(">>), GreaterThan(5 * Scale)}

SeqHttpExpects == {Anything, Matches(<<"a">>)}

SeqUrls == {"http://h1/", "http://h2/", "h1/login", "data:text"}

SeqHttp ==
    {HttpUrlOnly(u) : u \in SeqUrls}
    \cup {HttpWithOptions(HttpOptions(u, "GET", g, s, st, None, None, None)) :
            u \in SeqUrls, g \in BOOLEAN, s \in BOOLEAN, st \in {200, 302}}
    \cup {HttpWithOptions(HttpOptions("http://h1/", m, TRUE, FALSE, default_status, user, pass, form)) :
            m \in {"GET", "POST", "PUT"}, user \in {None, Some("u")},
            pass \in {None, Some("p")}, form \in {None, Some("f")}}

CookieLines == {LineA1, LineB2Path, LineNoEquals}

LineSeqs == UNION {[1..n -> CookieLines] : n \in 1..MaxCookies}

SeqNets ==
    {TransportError}
    \cup {Net(TRUE, st, c, b) :
            st \in {200, 302}, c \in {None} \cup {Some(l) : l \in LineSeqs}, b \in Bodies}

SeqBash == {BashCmdOnly("c"), BashWithOptions("c", TRUE), BashWithOptions("c", FALSE)}

Proc(spawned, success, code, stdout, stderr) ==
    [spawned |-> spawned, success |-> success, code |-> code, stdout |-> stdout, stderr |-> stderr]

SeqProcs ==
    {Proc(FALSE, FALSE, None, EmptyText, EmptyText)}
    \cup {Proc(TRUE, TRUE, Some(0), out, EmptyText) : out \in {<<"6">>, <<"a", InvalidByte>>}}
    \cup {Proc(TRUE, FALSE, code, <<"a">>, <<"6">>) : code \in {None, Some(2)}}

SeqProbes == [ok : BOOLEAN, reading : 0..MaxMetric]

SeqValue == \E val \in SeqTexts, e \in SeqExpects : ExecuteValue(1, val, e)

SeqBashStep == \E v \in SeqBash, e \in SeqExpects, proc \in SeqProcs : ExecuteBash(1, v, e, proc)

SeqSystemStep ==
    \E v \in SystemVariant, e \in SeqExpects, probe \in SeqProbes : ExecuteSystem(1, v, e, probe)

SeqSend == \E v \in SeqHttp, e \in SeqHttpExpects, env \in Envs : HttpSend(1, v, e, env)

SeqReceive == \E net \in SeqNets : HttpReceive(1, net)

SeqNext == SeqValue \/ SeqBashStep \/ SeqSystemStep \/ SeqSend \/ SeqReceive \/ Return(1)

SpecSeq == Init /\ [][SeqNext]_vars

\* One thread evaluating every expectation on every short text.
Alphabet == {"5", "6", ".", "-", "a"}

Texts == UNION {[1..n -> Alphabet] : n \in 0..MaxLen}

Thresholds == {5 * Scale, 0 - 5 * Scale, (11 * Scale) \div 2}

Patterns == {<<"6">>, <<"^", "6", "$">>, <<"5", ".">>, <<"(">>}

CheckExpects ==
    {Anything} \cup {Matches(p) : p \in Patterns}
    \cup {GreaterThan(n) : n \in Thresholds} \cup {LessThan(n) : n \in Thresholds}

CheckValue == \E val \in Texts, e \in CheckExpects : ExecuteValue(1, val, e)

CheckNext == CheckValue \/ Return(1)

SpecCheck == Init /\ [][CheckNext]_vars

\* ------------------------------------------------------------ properties

IsHttp(t) == call[t].run.tag = "http"

Ended(t) == pc[t] \in {"returned", "panicked"}

\* run()'s result and execute()'s result of a thread that has returned.
Ran(t) == Unwrap(obs[t].run)

Result(t) == Unwrap(outcome[t]).result

RunSucceeded(t) == pc[t] = "returned" /\ Ran(t).ok

\* The step received a response with the status it expects.
ReceivedExpected(t) ==
    /\ IsHttp(t) /\ Ended(t) /\ response[t] # None
    /\ Unwrap(response[t]).status = local[t].httpops.status

\* ... and the response carries a Set-Cookie header, with save_cookies set.
PersistAttempt(t) ==
    /\ ReceivedExpected(t)
    /\ local[t].httpops.save_cookies
    /\ Unwrap(response[t]).set_cookie # None

LinesOf(t) == Unwrap(Unwrap(response[t]).set_cookie)

\* Every line's first part is name=value.
WellFormed(lines) == \A i \in 1..Len(lines) : Len(SplitN2(Split(lines[i], ";")[1], "=")) = 2

NamesA(line) == Len(line) >= 2 /\ line[1] = "a" /\ line[2] = "="

\* The response sets a=1: a line a=1, and no later line for the name a.
CarriesA1(lines) ==
    \E i \in 1..Len(lines) :
        lines[i] = LineA1 /\ \A j \in (i + 1)..Len(lines) : ~NamesA(lines[j])

SendsA1(t) ==
    /\ request[t] # None
    /\ Unwrap(request[t]).cookie # None
    /\ <<"a">> \in DOMAIN Unwrap(Unwrap(request[t]).cookie)
    /\ Unwrap(Unwrap(request[t]).cookie)[<<"a">>] = <<"1">>

Persisted(t) == PersistAttempt(t) /\ RunSucceeded(t)

\* t2 sent its request after t1 ended, and no third step for the same
\* hostname ended in between having persisted (written the jar when
\* written is set, received a response to persist otherwise).
LaterWithNoPersistBetween(t1, t2, written) ==
    /\ t1 # t2
    /\ pc[t2] = "awaiting"
    /\ local[t2].hostname = local[t1].hostname
    /\ t1 \in obs[t2].began_after
    /\ \A u \in Threads \ {t1, t2} :
          ~(/\ u \in obs[t2].began_after
            /\ u \notin obs[t1].ended_after
            /\ local[u].hostname = local[t1].hostname
            /\ IF written THEN Persisted(u) ELSE PersistAttempt(u))

\* C1 as stated: once a step with save_cookies has received a response with
\* the expected status carrying Set-Cookie: a=1, every later request to the
\* same hostname, with no persist for it in between, carries a=1.  (Stated
\* for responses whose lines are all name=value.)
C1_Original ==
    \A t1 \in Threads, t2 \in Threads :
        (/\ PersistAttempt(t1)
         /\ WellFormed(LinesOf(t1))
         /\ CarriesA1(LinesOf(t1))
         /\ LaterWithNoPersistBetween(t1, t2, FALSE))
        => SendsA1(t2)

\* C1, amended: once a step with save_cookies has returned success from run()
\* on a response with the expected status carrying Set-Cookie: a=1, every
\* later request to the same hostname, with no persist for it in between,
\* carries a=1.
C1_RoundTrip ==
    \A t1 \in Threads, t2 \in Threads :
        (/\ Persisted(t1)
         /\ CarriesA1(LinesOf(t1))
         /\ LaterWithNoPersistBetween(t1, t2, TRUE))
        => SendsA1(t2)

C1_Witness ==
    \E t1 \in Threads, t2 \in Threads :
        /\ Persisted(t1)
        /\ CarriesA1(LinesOf(t1))
        /\ LaterWithNoPersistBetween(t1, t2, TRUE)
        /\ SendsA1(t2)
        /\ local[t1].hostname \notin DOMAIN initialJar

\* The cookie set the code parses from a thread's response.
ParsedOf(t) == CollectCookies(LinesOf(t), CookieNew).cookies

DistinctHosts == \A t \in Threads, u \in Threads : t # u => local[t].hostname # local[u].hostname

HostsOf == {local[t].hostname : t \in Threads}

OwnEntries ==
    /\ \A t \in Threads :
          /\ local[t].hostname \in DOMAIN COOKIES
          /\ COOKIES[local[t].hostname] = ParsedOf(t)
    /\ DOMAIN COOKIES = (DOMAIN initialJar) \cup HostsOf
    /\ \A h \in (DOMAIN initialJar) \ HostsOf : COOKIES[h] = initialJar[h]

\* C2 as stated: after concurrent Http steps to pairwise distinct hostnames,
\* each with save_cookies and each having received a response with the
\* expected status and a Set-Cookie header, the jar holds for each hostname
\* the cookie set of that hostname's own response, and nothing else changed.
\* (Stated for responses whose lines are all name=value.)
C2_Original ==
    (/\ \A t \in Threads : PersistAttempt(t) /\ WellFormed(LinesOf(t))
     /\ DistinctHosts)
    => OwnEntries

\* C2, amended: ... each having returned success from run() on a response
\* with the expected status and a Set-Cookie header ...
C2_NoLostUpdates ==
    (/\ \A t \in Threads : Persisted(t)
     /\ DistinctHosts)
    => OwnEntries

C2_Witness ==
    /\ \A t \in Threads : Persisted(t)
    /\ DistinctHosts
    /\ OwnEntries
    /\ \E t \in Threads : ParsedOf(t) = CookieA1
    /\ \E t \in Threads : ParsedOf(t) = CookieB2

\* A step of thread t.
Steps(t) == pc'[t] # pc[t]

\* C3 as stated: a step of an execute() that does not end in a successful
\* Outcome leaves the jar as it was.
C3_Original ==
    [][\A t \in Threads :
          (Steps(t) /\ ~(pc'[t] = "returned" /\ Unwrap(outcome'[t]).result.ok))
          => COOKIES' = COOKIES]_vars

\* C3, amended: a step of an execute() whose run() does not return success
\* (an execution-failure) leaves the jar as it was; an expectation-failure
\* comes after run() and may follow a persist.
C3_RunFailureKeepsJar ==
    [][\A t \in Threads :
          (Steps(t) /\ ~(pc'[t] = "returned" /\ Unwrap(obs'[t].run).ok))
          => COOKIES' = COOKIES]_vars

C3_Witness ==
    \E t \in Threads :
        /\ IsHttp(t) /\ pc[t] = "returned" /\ response[t] # None
        /\ local[t].httpops.save_cookies
        /\ Unwrap(response[t]).set_cookie = Some(<<LineA1>>)
        /\ ~Ran(t).ok
        /\ Ran(t).err.kind = "body read error"
        /\ local[t].hostname \notin DOMAIN COOKIES

\* C4: no execute() aborts; every one ends by returning an Outcome.
C4_NoAbort == \A t \in Threads : pc[t] # "panicked"

\* C5: an Http step that receives a status other than the expected one
\* returns the failure naming both codes, having issued one request, read no
\* body and not reached the persist stage; and no Http step issues a second
\* request.
C5_StatusMismatch ==
    \A t \in Threads :
        (IsHttp(t) /\ Ended(t) /\ response[t] # None) =>
            /\ obs[t].requests = 1
            /\ Unwrap(response[t]).status # local[t].httpops.status =>
                  /\ pc[t] = "returned"
                  /\ Ran(t) = Err(Msg("returned status {} does not match expected {}",
                                      <<Unwrap(response[t]).status, local[t].httpops.status>>,
                                      <<>>, <<>>))
                  /\ Result(t) = Ran(t)
                  /\ ~obs[t].body_read
                  /\ ~obs[t].persist_reached

C5_Witness ==
    \E t \in Threads :
        /\ IsHttp(t) /\ pc[t] = "returned" /\ response[t] # None
        /\ Unwrap(response[t]).status = 302
        /\ local[t].httpops.status = 200
        /\ local[t].httpops.save_cookies /\ local[t].httpops.get_output
        /\ Unwrap(response[t]).set_cookie = Some(<<LineA1>>)
        /\ ~Result(t).ok
        /\ obs[t].requests = 1

\* C6: the jar never loses an entry; an entry changes only when a step for
\* that hostname returns, and then it is exactly the cookie set of that
\* step's response; and every step that persists leaves exactly its own
\* response's cookie set under its hostname.
C6_OverwriteWhole ==
    [][/\ DOMAIN COOKIES \subseteq DOMAIN COOKIES'
       /\ \A h \in DOMAIN COOKIES' :
             (h \notin DOMAIN COOKIES \/ COOKIES'[h] # COOKIES[h]) =>
                \E t \in Threads :
                    /\ pc[t] = "awaiting" /\ pc'[t] = "returned"
                    /\ local[t].hostname = h
                    /\ response'[t] # None
                    /\ Unwrap(response'[t]).set_cookie # None
                    /\ COOKIES'[h] =
                          CollectCookies(Unwrap(Unwrap(response'[t]).set_cookie), CookieNew).cookies
       /\ \A t \in Threads :
             (/\ pc[t] = "awaiting" /\ pc'[t] = "returned"
              /\ Unwrap(obs'[t].run).ok
              /\ local[t].httpops.save_cookies
              /\ Unwrap(response'[t]).set_cookie # None) =>
                /\ local[t].hostname \in DOMAIN COOKIES'
                /\ COOKIES'[local[t].hostname] =
                      CollectCookies(Unwrap(Unwrap(response'[t]).set_cookie), CookieNew).cookies
      ]_vars

\* Two steps raced on a hostname that had an entry; what is left is one
\* response's cookie set, not the union.
C6_Witness ==
    \E t \in Threads, u \in Threads :
        /\ t # u
        /\ Persisted(t) /\ Persisted(u)
        /\ local[t].hostname = "h1" /\ local[u].hostname = "h1"
        /\ initialJar = JarInsert(EmptyJar, "h1", CookieB2)
        /\ ParsedOf(t) = CookieA1 /\ ParsedOf(u) = CookieB2
        /\ u \in obs[t].ended_after
        /\ COOKIES["h1"] = CookieA1

\* C7: the request goes out as POST when a form is present and the
\* configured method is GET, and with the configured method otherwise.
C7_MethodSelection ==
    \A t \in Threads :
        pc[t] = "awaiting" =>
            LET configured ==
                    IF call[t].run.http.variant = "UrlOnly" THEN "GET"
                    ELSE call[t].run.http.opts.method
                form ==
                    IF call[t].run.http.variant = "UrlOnly" THEN None
                    ELSE call[t].run.http.opts.form
                sent == Unwrap(request[t]).method
            IN  /\ (form # None /\ configured = "GET") => sent = "POST"
                /\ configured # "GET" => sent = configured
                /\ form = None => sent = configured

C7_Witness ==
    \E t \in Threads :
        /\ pc[t] = "awaiting"
        /\ call[t].run.http.variant = "Options"
        /\ call[t].run.http.opts.method = "PUT"
        /\ call[t].run.http.opts.form # None
        /\ Unwrap(request[t]).method = "PUT"

\* C8: a returned Outcome carries run()'s failure, with the expectation not
\* evaluated, or else exactly what the evaluator makes of run()'s text: the
\* text itself for Anything, empty text for a Matches that succeeds, or the
\* evaluator's failure.  A Value step's run() is its text.
C8_Pipeline ==
    \A t \in Threads :
        pc[t] = "returned" =>
            /\ call[t].run.tag = "value" => Ran(t) = Ok(call[t].run.val)
            /\ ~Ran(t).ok => (Result(t) = Ran(t) /\ ~obs[t].checked /\ Ran(t).err # NoMsg)
            /\ Ran(t).ok =>
                  /\ obs[t].checked
                  /\ Result(t) = Check(call[t].expect, Ran(t).val)
                  /\ call[t].expect.tag = "anything" => Result(t) = Ok(Ran(t).val)
                  /\ (call[t].expect.tag = "matches" /\ Result(t).ok) => Result(t).val = EmptyText
                  /\ ~Result(t).ok => Result(t).err # NoMsg

C8_Witness ==
    \E t \in Threads :
        /\ pc[t] = "returned"
        /\ call[t].run.tag = "bash"
        /\ ~Ran(t).ok
        /\ call[t].expect = Matches(<<"(">>)
        /\ Result(t).err.kind = "Exit Code:{}, StdErr:{}, StdOut:{}"

\* Two of the texts.
Five == <<"5">>

Six == <<"6">>

\* C9: on text that parses to v, GreaterThan(n) succeeds exactly when v > n
\* and LessThan(n) exactly when v < n, the payload being the text; text that
\* does not parse fails under both.  GreaterThan(5) succeeds on "6", fails on
\* "5", on "5." and on "a".
C9_Thresholds ==
    \A t \in Threads :
        (pc[t] = "returned" /\ call[t].run.tag = "value"
         /\ call[t].expect.tag \in {"greaterthan", "lessthan"}) =>
            LET text == call[t].run.val
                n == call[t].expect.num
                v == ParseF64(text)
                gt == call[t].expect.tag = "greaterthan"
            IN  /\ Result(t).ok <=> (v.ok /\ IF gt THEN v.val > n ELSE v.val < n)
                /\ Result(t).ok => Result(t).val = text
                /\ (v.ok /\ v.val = n) => ~Result(t).ok
                /\ ~v.ok => Result(t).err.kind = "Could not parse {} as a number"
                /\ (gt /\ n = 5 * Scale /\ text = Six) => Result(t).ok
                /\ (gt /\ n = 5 * Scale /\ text \in {Five, <<"5", ".">>, <<"a">>, <<"-", "6">>})
                      => ~Result(t).ok
                /\ (~gt /\ n = 5 * Scale /\ text \in {<<"-", "6">>, <<".", "5">>}) => Result(t).ok
                /\ (~gt /\ n = 5 * Scale /\ text \in {Five, Six, <<"a">>, <<"5", "-">>})
                      => ~Result(t).ok

C9_Witness ==
    \E t \in Threads :
        /\ pc[t] = "returned"
        /\ call[t].run = Value(Five)
        /\ call[t].expect = GreaterThan(5 * Scale)
        /\ ~Result(t).ok
        /\ Result(t).err.kind = "the value {} is less than {}"

\* C10: a step reads only its own hostname's entry and writes no other one;
\* the whole jar stays as it is when the step is not an Http step, when it
\* sends its request, when save_cookies is off, when the response has no
\* Set-Cookie header, or when run() does not return success.
C10_JarFrame ==
    [][\A t \in Threads :
          Steps(t) =>
            /\ (call'[t].run.tag \in {"value", "bash", "system"}) => COOKIES' = COOKIES
            /\ pc[t] = "idle" => COOKIES' = COOKIES
            /\ pc'[t] = "awaiting" =>
                  Unwrap(request'[t]).cookie =
                      IF local'[t].hostname \in DOMAIN COOKIES
                      THEN Some(COOKIES[local'[t].hostname]) ELSE None
            /\ pc[t] = "awaiting" =>
                  /\ \A h \in HostNames \ {local[t].hostname} :
                        /\ h \in DOMAIN COOKIES' <=> h \in DOMAIN COOKIES
                        /\ h \in DOMAIN COOKIES => COOKIES'[h] = COOKIES[h]
                  /\ (\/ ~local[t].httpops.save_cookies
                      \/ response'[t] = None
                      \/ (response'[t] # None /\ Unwrap(response'[t]).set_cookie = None)
                      \/ ~(pc'[t] = "returned" /\ Unwrap(obs'[t].run).ok))
                     => COOKIES' = COOKIES
      ]_vars

\* A request to h2 went out bare while the jar held cookies for h1 only.
C10_Witness ==
    \E t \in Threads :
        /\ pc[t] = "awaiting"
        /\ local[t].hostname = "h2"
        /\ DOMAIN COOKIES = {"h1"}
        /\ Unwrap(request[t]).cookie = None

====
